---- MODULE Spec2Model ----
(***************************************************************************)
(* Model of pyLinguist/baseTypes.py: the exception type                    *)
(* YaTranslateException and the generic request handler _YaAPIHandler      *)
(* (parameter formation, URL construction, the three low-level request     *)
(* variants, the combined dispatch, the cached language-list fetch and     *)
(* the key-validation probe).                                              *)
(*                                                                         *)
(* Python values are encoded as records of one shape:                      *)
(*   [tag, keys, items]  tag \in {"None", "list", "dict"}                  *)
(* whose items are atoms [tag |-> "str" | "None", s |-> <string>].         *)
(* A response body is a sequence of lexical tokens <<kind, text>>; the     *)
(* JSON and XML decoders below parse that sequence.                        *)
(***************************************************************************)
EXTENDS Integers, Sequences, FiniteSets, TLC

VARIABLES handler, last

vars == <<handler, last>>

----------------------------------------------------------------------------
(* Python values *)

Str(s) == [tag |-> "str", s |-> s]

NoneAtom == [tag |-> "None", s |-> ""]

PyNone == [tag |-> "None", keys |-> <<>>, items |-> <<>>]

PyList(items) == [tag |-> "list", keys |-> <<>>, items |-> items]

PyDict(keys, items) == [tag |-> "dict", keys |-> keys, items |-> items]

\* Python truth value: None, [] and {} are false.
Truthy(v) == v.tag # "None" /\ Len(v.items) # 0

----------------------------------------------------------------------------
(* YaTranslateException *)

error_codes ==
    [c \in {400, 401, 402, 403, 404, 413, 422, 501, 503} |->
        CASE c = 400 -> "Wrong parameter was specified"
          [] c = 401 -> "Invalid API key"
          [] c = 402 -> "Blocked API key"
          [] c = 403 -> "Exceeded the daily limit on the amount of requests"
          [] c = 404 -> "Exceeded the daily limit on the amount of translated text"
          [] c = 413 -> "Exceeded the maximum text size"
          [] c = 422 -> "The text cannot be translated"
          [] c = 501 -> "The specified translation direction is not supported"
          [] c = 503 -> "Server not available"]

\* An exception is its type and its args; the args of a
\* YaTranslateException are (message, status_code).
NoException == [type |-> "", args |-> <<"", 0>>]

ConnectionError == [type |-> "ConnectionError", args |-> <<"", 0>>]

ValueError == [type |-> "ValueError", args |-> <<"", 0>>]

ParseError == [type |-> "ParseError", args |-> <<"", 0>>]

KeyError == [type |-> "KeyError", args |-> <<"", 0>>]

YaTranslateExceptionStrictLookup(status_code) ==
    IF status_code \in DOMAIN error_codes
    THEN [type |-> "YaTranslateException",
          args |-> <<error_codes[status_code], status_code>>]
    ELSE KeyError

YaTranslateException(status_code) ==
    LET message == IF status_code \in DOMAIN error_codes
                   THEN error_codes[status_code] ELSE "Unknown code"
    IN  [type |-> "YaTranslateException", args |-> <<message, status_code>>]

----------------------------------------------------------------------------
(* Response bodies and their decoders *)

\* A token is <<kind, text>>.  XML: "open", "text", "close".
\* JSON: "[", "]", "{", "}", ",", ":", "str", "null".
Tok(kind, text) == <<kind, text>>

NoElement == [tag |-> "", text |-> NoneAtom, children |-> <<>>]

ParseFail == [ok |-> FALSE, node |-> NoElement, nodes |-> <<>>, next |-> 0]

RECURSIVE ParseElement(_, _)
RECURSIVE ParseChildren(_, _, _)

\* One element starting at toks[i]: start tag, optional text, child
\* elements (each with an optional tail), matching end tag.
ParseElement(toks, i) ==
    IF i > Len(toks) \/ toks[i][1] # "open" THEN ParseFail
    ELSE LET name == toks[i][2]
             hasText == i + 1 <= Len(toks) /\ toks[i + 1][1] = "text"
             text == IF hasText THEN Str(toks[i + 1][2]) ELSE NoneAtom
             kids == ParseChildren(toks, IF hasText THEN i + 2 ELSE i + 1, <<>>)
         IN  IF ~kids.ok THEN ParseFail
             ELSE IF kids.next > Len(toks) \/ toks[kids.next] # Tok("close", name)
             THEN ParseFail
             ELSE [ok |-> TRUE,
                   node |-> [tag |-> name, text |-> text, children |-> kids.nodes],
                   nodes |-> <<>>,
                   next |-> kids.next + 1]

ParseChildren(toks, i, acc) ==
    IF i <= Len(toks) /\ toks[i][1] = "open"
    THEN LET e == ParseElement(toks, i)
             tail == e.next <= Len(toks) /\ toks[e.next][1] = "text"
         IN  IF ~e.ok THEN ParseFail
             ELSE ParseChildren(toks, IF tail THEN e.next + 1 ELSE e.next,
                                Append(acc, e.node))
    ELSE [ok |-> TRUE, node |-> NoElement, nodes |-> acc, next |-> i]

\* ElementTree.fromstring: exactly one root element, nothing after it.
fromstring(content) ==
    LET e == ParseElement(content, 1)
    IN  IF e.ok /\ e.next = Len(content) + 1
        THEN [ok |-> TRUE, node |-> e.node]
        ELSE [ok |-> FALSE, node |-> NoElement]

\* Element.find(path): index of the first direct child with that tag,
\* 0 for None.
find(element, path) ==
    LET hits == {i \in 1..Len(element.children) : element.children[i].tag = path}
    IN  IF hits = {} THEN 0 ELSE CHOOSE i \in hits : \A j \in hits : i <= j

\* Truth value of what find returned: None is false, and an Element is
\* false when it has no children (Element.__len__).
FoundTruthy(element, idx) ==
    idx # 0 /\ Len(element.children[idx].children) # 0

\* [child.text for child in element]
Texts(element) ==
    [i \in 1..Len(element.children) |-> element.children[i].text]

JsonFail == [ok |-> FALSE, value |-> PyNone]

RECURSIVE ParseItems(_, _, _)
RECURSIVE ParsePairs(_, _, _, _)

\* "str" ("," "str")* "]" starting at toks[i]
ParseItems(toks, i, acc) ==
    IF i > Len(toks) \/ toks[i][1] # "str" THEN JsonFail
    ELSE LET acc2 == Append(acc, Str(toks[i][2]))
         IN  IF i + 1 > Len(toks) THEN JsonFail
             ELSE IF toks[i + 1][1] = "]"
             THEN IF i + 1 = Len(toks)
                  THEN [ok |-> TRUE, value |-> PyList(acc2)] ELSE JsonFail
             ELSE IF toks[i + 1][1] = "," THEN ParseItems(toks, i + 2, acc2)
             ELSE JsonFail

\* "str" ":" "str" ("," ...)* "}" starting at toks[i]
ParsePairs(toks, i, ks, vs) ==
    IF i + 3 > Len(toks) \/ toks[i][1] # "str" \/ toks[i + 1][1] # ":"
       \/ toks[i + 2][1] # "str" THEN JsonFail
    ELSE LET ks2 == IF \E n \in 1..Len(ks) : ks[n] = toks[i][2]
                    THEN ks ELSE Append(ks, toks[i][2])
             at == CHOOSE n \in 1..Len(ks2) : ks2[n] = toks[i][2]
             vs2 == [n \in 1..Len(ks2) |->
                        IF n = at THEN Str(toks[i + 2][2]) ELSE vs[n]]
         IN  IF toks[i + 3][1] = "}"
             THEN IF i + 3 = Len(toks)
                  THEN [ok |-> TRUE, value |-> PyDict(ks2, vs2)] ELSE JsonFail
             ELSE IF toks[i + 3][1] = "," THEN ParsePairs(toks, i + 4, ks2, vs2)
             ELSE JsonFail

\* Response.json(): null, a list of strings or a mapping of strings.
json(content) ==
    IF content = <<>> THEN JsonFail
    ELSE IF content = <<Tok("null", "")>> THEN [ok |-> TRUE, value |-> PyNone]
    ELSE IF content = <<Tok("[", ""), Tok("]", "")>>
    THEN [ok |-> TRUE, value |-> PyList(<<>>)]
    ELSE IF content = <<Tok("{", ""), Tok("}", "")>>
    THEN [ok |-> TRUE, value |-> PyDict(<<>>, <<>>)]
    ELSE IF content[1][1] = "[" THEN ParseItems(content, 2, <<>>)
    ELSE IF content[1][1] = "{" THEN ParsePairs(content, 2, <<>>, <<>>)
    ELSE JsonFail

----------------------------------------------------------------------------
(* The network *)

\* What one HTTP call can come to: no response at all, or a response with a
\* status code and a body.
XmlDirs ==
    <<Tok("open", "Langs"), Tok("open", "dirs"),
      Tok("open", "string"), Tok("text", "en-ru"), Tok("close", "string"),
      Tok("open", "string"), Tok("text", "ru-en"), Tok("close", "string"),
      Tok("close", "dirs"), Tok("close", "Langs")>>

XmlFlat ==
    <<Tok("open", "ArrayOfString"),
      Tok("open", "string"), Tok("text", "en"), Tok("close", "string"),
      Tok("open", "string"), Tok("text", "ru"), Tok("close", "string"),
      Tok("open", "string"), Tok("text", "de"), Tok("close", "string"),
      Tok("close", "ArrayOfString")>>

XmlEmptyDirs ==
    <<Tok("open", "Langs"), Tok("open", "dirs"), Tok("close", "dirs"),
      Tok("open", "langs"), Tok("text", "en"), Tok("close", "langs"),
      Tok("close", "Langs")>>

XmlBroken == <<Tok("open", "Langs"), Tok("open", "dirs"), Tok("close", "Langs")>>

JsonNull == <<Tok("null", "")>>

JsonEmptyList == <<Tok("[", ""), Tok("]", "")>>

JsonList ==
    <<Tok("[", ""), Tok("str", "en-ru"), Tok(",", ""), Tok("str", "ru-en"),
      Tok("]", "")>>

JsonDict ==
    <<Tok("{", ""), Tok("str", "dirs"), Tok(":", ""), Tok("str", "en-ru"),
      Tok("}", "")>>

Bodies ==
    {XmlDirs, XmlFlat, XmlEmptyDirs, XmlBroken,
     JsonNull, JsonEmptyList, JsonList, JsonDict}

FailureStatuses == {401, 500}

NoResponse == [kind |-> "none", status_code |-> 0, content |-> <<>>]

Outcomes ==
    {[kind |-> "transport", status_code |-> 0, content |-> <<>>]}
    \cup {[kind |-> "http", status_code |-> 200, content |-> b] : b \in Bodies}
    \cup {[kind |-> "http", status_code |-> c, content |-> b] :
            c \in FailureStatuses, b \in {JsonList}}

\* requests.Response.ok
okAlways(response) == TRUE

ok(response) == response.status_code < 400

----------------------------------------------------------------------------
(* _YaAPIHandler *)

_base_url == ""

_endpoints == [langs |-> "getLangs"]

NoHandler ==
    [alive |-> FALSE, _api_key |-> "", _json |-> "", _cache |-> PyNone,
     _url |-> "", fetched |-> FALSE]

\* __init__: the state it creates, or the exception it raises.  fetched is
\* history: a language-list fetch of this handler has succeeded.
__init__AcceptsEmpty(api_key, xml) ==
    [raised |-> FALSE, exc |-> NoException,
     self |-> [alive |-> TRUE, _api_key |-> api_key,
               _json |-> IF ~xml THEN ".json" ELSE "",
               _cache |-> PyNone, _url |-> _base_url, fetched |-> FALSE]]

__init__(api_key, xml) ==
    IF api_key = ""
    THEN [raised |-> TRUE, exc |-> YaTranslateException(401), self |-> NoHandler]
    ELSE [raised |-> FALSE, exc |-> NoException,
          self |-> [alive |-> TRUE, _api_key |-> api_key,
                    _json |-> IF ~xml THEN ".json" ELSE "",
                    _cache |-> PyNone, _url |-> _base_url, fetched |-> FALSE]]

_make_url(self, endpoint, url) ==
    IF endpoint \notin DOMAIN _endpoints THEN [ok |-> FALSE, url |-> ""]
    ELSE IF url # "" THEN [ok |-> TRUE, url |-> url \o _endpoints[endpoint]]
    ELSE [ok |-> TRUE, url |-> self._url \o _endpoints[endpoint]]

_form_paramsKeepCallback(self, params) ==
    [k \in DOMAIN params \cup {"key"} |->
        IF k = "key" THEN self._api_key ELSE params[k]]

_form_params(self, params) ==
    LET parameters == [k \in DOMAIN params \cup {"key"} |->
                          IF k = "key" THEN self._api_key ELSE params[k]]
    IN  IF "callback" \in DOMAIN parameters /\ self._json = ""
        THEN [k \in DOMAIN parameters \ {"callback"} |-> parameters[k]]
        ELSE parameters

\* What a call comes to: the value it returns or the exception it raises,
\* the HTTP requests it issued, whether a body was handed to a decoder,
\* which low-level variant served it, the warnings it logged and the cache
\* it leaves behind.
NoResult ==
    [raised |-> FALSE, exc |-> NoException, type |-> "None",
     response |-> NoResponse, value |-> PyNone, element |-> NoElement,
     bool |-> FALSE, requests |-> <<>>, parsed |-> FALSE, path |-> "",
     warnings |-> <<>>, cache |-> PyNone, stored |-> FALSE,
     mapping |-> <<>>, text |-> ""]

Raise(result, exc) ==
    [result EXCEPT !.raised = TRUE, !.exc = exc, !.type = "None",
                   !.response = NoResponse, !.value = PyNone,
                   !.element = NoElement]

_make_request(url, post, params, o) ==
    LET sent1 == [NoResult EXCEPT !.requests =
                     <<[verb |-> IF post THEN "POST" ELSE "GET",
                        url |-> url, params |-> params]>>]
    IN  IF o.kind = "transport" THEN Raise(sent1, ConnectionError)
        ELSE IF ~ok(o) THEN Raise(sent1, YaTranslateException(o.status_code))
        ELSE [sent1 EXCEPT !.type = "Response", !.response = o]

_make_request_xml(url, post, params, o) ==
    LET response == _make_request(url, post, params, o)
    IN  IF response.raised THEN response
        ELSE LET tree == fromstring(response.response.content)
                 tried == [response EXCEPT !.parsed = TRUE]
             IN  IF ~tree.ok THEN Raise(tried, ParseError)
                 ELSE [tried EXCEPT !.type = "Element", !.element = tree.node,
                                    !.response = NoResponse]

_make_request_json(url, post, params, o) ==
    LET response == _make_request(url, post, params, o)
    IN  IF response.raised THEN response
        ELSE LET decoded == json(response.response.content)
                 tried == [response EXCEPT !.parsed = TRUE]
             IN  IF ~decoded.ok THEN Raise(tried, ValueError)
                 ELSE [tried EXCEPT !.type = "value", !.value = decoded.value,
                                    !.response = NoResponse]

make_combined_requestByFormat(self, endpoint, post, params, o) ==
    LET url == _make_url(self, endpoint, "")
    IN  IF ~url.ok THEN Raise(NoResult, KeyError)
        ELSE IF self._json = ""
        THEN [_make_request_xml(url.url, post, params, o) EXCEPT !.path = "xml"]
        ELSE [_make_request_json(url.url, post, params, o) EXCEPT !.path = "json"]

make_combined_request(self, endpoint, post, params, o) ==
    LET url == _make_url(self, endpoint, "")
    IN  IF ~url.ok THEN Raise(NoResult, KeyError)
        ELSE IF "callback" \in DOMAIN params
        THEN [_make_request(url.url, post, params, o) EXCEPT !.path = "raw"]
        ELSE IF self._json = ""
        THEN [_make_request_xml(url.url, post, params, o) EXCEPT !.path = "xml"]
        ELSE [_make_request_json(url.url, post, params, o) EXCEPT !.path = "json"]

\* The value _get_langs stores for a decoded response.
Langs(self, response) ==
    IF self._json # "" THEN response.value
    ELSE LET dirs == find(response.element, "dirs")
         IN  IF FoundTruthy(response.element, dirs)
             THEN PyList(Texts(response.element.children[dirs]))
             ELSE PyList(Texts(response.element))

_get_langsCachesCallback(self, url, update, params, o) ==
    LET parameters == _form_params(self, params)
        response == _make_request(_make_url(self, "langs", url).url, FALSE,
                                  parameters, o)
    IN  IF response.raised THEN [response EXCEPT !.cache = self._cache]
        ELSE [response EXCEPT !.cache = PyList(<<Str("jsonp")>>),
                              !.stored = TRUE]

_get_langs(self, url, update, params, o) ==
    LET parameters == _form_params(self, params)
    IN  IF "callback" \in DOMAIN params
        THEN [_make_request(_make_url(self, "langs", url).url, FALSE,
                            parameters, o)
                EXCEPT !.cache = self._cache]
        ELSE IF update \/ ~Truthy(self._cache)
        THEN LET response == make_combined_request(self, "langs", FALSE,
                                                   parameters, o)
             IN  IF response.raised
                 THEN [response EXCEPT !.cache = self._cache]
                 ELSE [response EXCEPT !.type = "value",
                                       !.value = Langs(self, response),
                                       !.element = NoElement,
                                       !.cache = Langs(self, response),
                                       !.stored = TRUE]
        ELSE [NoResult EXCEPT !.type = "value", !.value = self._cache,
                              !.cache = self._cache]

_okCatchesApiErrors(self, url, params, o) ==
    LET got == _get_langs(self, url, TRUE, params, o)
    IN  IF got.raised /\ got.exc.type = "YaTranslateException"
        THEN [got EXCEPT !.raised = FALSE, !.exc = NoException,
                         !.warnings = <<got.exc>>, !.type = "bool",
                         !.bool = FALSE]
        ELSE IF got.raised THEN got
        ELSE [got EXCEPT !.type = "bool", !.bool = TRUE, !.value = PyNone,
                         !.response = NoResponse]

_ok(self, url, params, o) ==
    LET got == _get_langs(self, url, TRUE, params, o)
    IN  IF got.raised
        THEN [got EXCEPT !.raised = FALSE, !.exc = NoException,
                         !.warnings = <<got.exc>>, !.type = "bool",
                         !.bool = FALSE]
        ELSE [got EXCEPT !.type = "bool", !.bool = TRUE, !.value = PyNone,
                         !.response = NoResponse]

----------------------------------------------------------------------------
(* Callers *)

ApiKeys == {"", "123"}

Urls == {"", "http://url/"}

Endpoints == {"langs", "detect"}

Supplied == [callback |-> "cb", ui |-> "en", key |-> "mine"]

ParamSets == {[k \in D |-> Supplied[k]] : D \in SUBSET DOMAIN Supplied}

\* The parameters given to the calls that reach the network.
RequestParamSets == {p \in ParamSets : DOMAIN p \in {{"ui"}, {"callback"}}}

\* The parameters given to the static request methods.
StaticParamSets == {p \in ParamSets : DOMAIN p = {"key"}}

StatusCodes == DOMAIN error_codes \cup {0, 200, 300, 500}

NoArgs ==
    [api_key |-> "", xml |-> FALSE, endpoint |-> "", url |-> "",
     update |-> FALSE, post |-> FALSE, params |-> <<>>, status_code |-> 0]

\* The call before this one was a forced refresh of the language list
\* (direct or through the probe) that ended in an exception.
FailedRefresh(call) ==
    /\ "callback" \notin DOMAIN call.args.params
    /\ \/ call.op = "_get_langs" /\ call.args.update /\ call.result.raised
       \/ call.op = "_ok" /\ call.result.warnings # <<>>

\* The record of a finished call: what was called with what, the handler
\* as the call found it, the network's answer and the call's result.
Call(op, args, o, result) ==
    [op |-> op, args |-> args, self |-> handler, outcome |-> o,
     result |-> result, afterFailedRefresh |-> FailedRefresh(last)]

Init ==
    /\ handler = NoHandler
    /\ last = [op |-> "", args |-> NoArgs, self |-> NoHandler,
               outcome |-> NoResponse, result |-> NoResult,
               afterFailedRefresh |-> FALSE]

\* YaTranslateException(status_code)
NewException ==
    \E status_code \in StatusCodes :
        /\ last' = Call("YaTranslateException",
                        [NoArgs EXCEPT !.status_code = status_code], NoResponse,
                        Raise(NoResult, YaTranslateException(status_code)))
        /\ UNCHANGED handler

\* _YaAPIHandler(api_key, xml)
Construct ==
    \E api_key \in ApiKeys, xml \in BOOLEAN :
        LET made == __init__(api_key, xml)
        IN  /\ ~handler.alive
            /\ handler' = made.self
            /\ last' = Call("__init__",
                            [NoArgs EXCEPT !.api_key = api_key, !.xml = xml],
                            NoResponse,
                            IF made.raised THEN Raise(NoResult, made.exc)
                            ELSE NoResult)

\* handler._make_url(endpoint, url)
MakeUrl ==
    \E endpoint \in Endpoints, url \in Urls :
        LET made == _make_url(handler, endpoint, url)
        IN  /\ handler.alive
            /\ last' = Call("_make_url",
                            [NoArgs EXCEPT !.endpoint = endpoint, !.url = url],
                            NoResponse,
                            IF made.ok
                            THEN [NoResult EXCEPT !.type = "str",
                                                  !.text = made.url]
                            ELSE Raise(NoResult, KeyError))
            /\ UNCHANGED handler

\* handler._form_params(**params)
FormParams ==
    \E params \in ParamSets :
        /\ handler.alive
        /\ last' = Call("_form_params", [NoArgs EXCEPT !.params = params],
                        NoResponse,
                        [NoResult EXCEPT !.type = "dict",
                                         !.mapping = _form_params(handler, params)])
        /\ UNCHANGED handler

\* A call that may use the network, and the answer the network gave it.
Network(op, args, o, result) == last' = Call(op, args, o, result)

\* _YaAPIHandler._make_request(url, post, **params)
MakeRequest ==
    \E post \in BOOLEAN, params \in StaticParamSets, o \in Outcomes :
        /\ Network("_make_request",
                   [NoArgs EXCEPT !.url = "http://url/getLangs", !.post = post,
                                  !.params = params],
                   o, _make_request("http://url/getLangs", post, params, o))
        /\ UNCHANGED handler

\* _YaAPIHandler._make_request_xml(url, post, **params)
MakeRequestXml ==
    \E post \in BOOLEAN, params \in StaticParamSets, o \in Outcomes :
        /\ Network("_make_request_xml",
                   [NoArgs EXCEPT !.url = "http://url/getLangs", !.post = post,
                                  !.params = params],
                   o, _make_request_xml("http://url/getLangs", post, params, o))
        /\ UNCHANGED handler

\* _YaAPIHandler._make_request_json(url, post, **params)
MakeRequestJson ==
    \E post \in BOOLEAN, params \in StaticParamSets, o \in Outcomes :
        /\ Network("_make_request_json",
                   [NoArgs EXCEPT !.url = "http://url/getLangs", !.post = post,
                                  !.params = params],
                   o, _make_request_json("http://url/getLangs", post, params, o))
        /\ UNCHANGED handler

\* handler.make_combined_request(endpoint, post, **params)
MakeCombinedRequest ==
    \E endpoint \in Endpoints, post \in BOOLEAN, params \in RequestParamSets,
       o \in Outcomes :
        /\ handler.alive
        /\ Network("make_combined_request",
                   [NoArgs EXCEPT !.endpoint = endpoint, !.post = post,
                                  !.params = params],
                   o, make_combined_request(handler, endpoint, post, params, o))
        /\ UNCHANGED handler

\* handler._get_langs(url, update, **params)
GetLangs ==
    \E url \in Urls, update \in BOOLEAN, params \in RequestParamSets,
       o \in Outcomes :
        LET result == _get_langs(handler, url, update, params, o)
        IN  /\ handler.alive
            /\ Network("_get_langs",
                       [NoArgs EXCEPT !.url = url, !.update = update,
                                      !.params = params],
                       o, result)
            /\ handler' = [handler EXCEPT
                             !._cache = result.cache,
                             !.fetched = handler.fetched \/ result.stored]

\* handler._ok(url, **params)
Ok ==
    \E url \in Urls, params \in RequestParamSets, o \in Outcomes :
        LET result == _ok(handler, url, params, o)
        IN  /\ handler.alive
            /\ Network("_ok", [NoArgs EXCEPT !.url = url, !.params = params],
                       o, result)
            /\ handler' = [handler EXCEPT
                             !._cache = result.cache,
                             !.fetched = handler.fetched \/ result.stored]

Next ==
    \/ NewException
    \/ Construct
    \/ MakeUrl
    \/ FormParams
    \/ MakeRequest
    \/ MakeRequestXml
    \/ MakeRequestJson
    \/ MakeCombinedRequest
    \/ GetLangs
    \/ Ok

Spec == Init /\ [][Next]_vars

----------------------------------------------------------------------------
(* Properties *)

HasCallback == "callback" \in DOMAIN last.args.params

\* The HTTP status of the answer indicates failure (4xx, 5xx).
FailureStatus == last.outcome.kind = "http" /\ last.outcome.status_code >= 400

\* C1: in JSON mode, once a language-list fetch has succeeded, a _get_langs
\* call without update and without callback issues no request and returns
\* the cached value, whatever that value is; a call with update set issues
\* exactly one request.
C1_CachedAfterFirstFetch ==
    (last.op = "_get_langs" /\ last.self._json # "" /\ ~HasCallback) =>
        /\ (last.self.fetched /\ ~last.args.update) =>
              /\ last.result.requests = <<>>
              /\ ~last.result.raised
              /\ last.result.value = last.self._cache
        /\ last.args.update => Len(last.result.requests) = 1

\* C2: construction with an empty API key raises the exception of status
\* 401, 'Invalid API key', issues no request and creates no handler state.
C2_EmptyKeyRejected ==
    (last.op = "__init__" /\ last.args.api_key = "") =>
        /\ last.result.raised
        /\ last.result.exc.type = "YaTranslateException"
        /\ last.result.exc.args = <<"Invalid API key", 401>>
        /\ last.result.requests = <<>>
        /\ handler = NoHandler

C2_Witness ==
    /\ last.op = "__init__" /\ last.args.api_key = "" /\ last.args.xml
    /\ last.result.raised

\* C3: each low-level request variant, with GET and with POST, answers a
\* failure status with the typed exception carrying that status code,
\* without handing the body to a decoder, after exactly one request.
C3_FailureStatusRaises ==
    (/\ last.op \in {"_make_request", "_make_request_json", "_make_request_xml"}
     /\ FailureStatus) =>
        /\ last.result.raised
        /\ last.result.exc.type = "YaTranslateException"
        /\ last.result.exc.args[2] = last.outcome.status_code
        /\ ~last.result.parsed
        /\ Len(last.result.requests) = 1
        /\ last.result.requests[1].verb = IF last.args.post THEN "POST" ELSE "GET"

C3_Witness ==
    /\ last.op = "_make_request_json" /\ last.args.post
    /\ last.outcome.status_code = 500
    /\ last.result.exc.args = <<"Unknown code", 500>>

\* C4: make_combined_request takes the raw path when a callback parameter
\* is present, whatever the format; otherwise the XML path in XML mode and
\* the JSON path in JSON mode; one path per call, one request, to the
\* handler's base URL followed by the endpoint's path segment.
C4_Dispatch ==
    (last.op = "make_combined_request" /\ last.args.endpoint = "langs") =>
        /\ last.result.path = IF HasCallback THEN "raw"
                              ELSE IF last.self._json = "" THEN "xml" ELSE "json"
        /\ Len(last.result.requests) = 1
        /\ last.result.requests[1].url = last.self._url \o "getLangs"
        /\ last.result.type \in
              CASE last.result.path = "raw" -> {"Response", "None"}
                [] last.result.path = "xml" -> {"Element", "None"}
                [] OTHER -> {"value", "None"}
        /\ (last.result.path = "raw") => ~last.result.parsed

C4_Witness ==
    /\ last.op = "make_combined_request" /\ last.args.endpoint = "langs"
    /\ HasCallback /\ last.self._json = ""
    /\ last.result.path = "raw" /\ last.result.type = "Response"

\* C5: a _get_langs call with a callback parameter issues one direct
\* request, returns the raw response and not the cached value, and leaves
\* the cache as it was, in either mode, for any update flag and cache.
C5_CallbackBypassesCache ==
    (last.op = "_get_langs" /\ HasCallback) =>
        /\ Len(last.result.requests) = 1
        /\ last.result.requests[1].verb = "GET"
        /\ ~last.result.parsed
        /\ ~last.result.raised =>
              (last.result.type = "Response" /\ last.result.response = last.outcome)
        /\ handler._cache = last.self._cache
        /\ ~last.result.stored

C5_Witness ==
    /\ last.op = "_get_langs" /\ HasCallback /\ ~last.args.update
    /\ Truthy(last.self._cache)
    /\ last.result.type = "Response"
    /\ handler._cache = last.self._cache

\* C6: the probe _ok never raises; it issues a request whatever the cache
\* holds, returns false and logs the exception when the forced-refresh
\* fetch raises, and returns true without a warning otherwise.
C6_ProbeNeverRaises ==
    (last.op = "_ok") =>
        LET got == _get_langs(last.self, last.args.url, TRUE,
                              last.args.params, last.outcome)
            fails == \/ last.outcome.kind = "transport"
                     \/ FailureStatus
                     \/ got.parsed /\ got.raised
        IN  /\ ~last.result.raised
            /\ last.result.type = "bool"
            /\ Len(last.result.requests) = 1
            /\ last.result.bool = ~fails
            /\ last.result.warnings = IF fails THEN <<got.exc>> ELSE <<>>

C6_Witness ==
    /\ last.op = "_ok" /\ Truthy(last.self._cache)
    /\ last.outcome.kind = "transport"
    /\ ~last.result.bool /\ last.result.warnings = <<ConnectionError>>

\* C7: in XML mode a successful fetch without callback caches and returns
\* the texts of the children of the 'dirs' element whenever the response
\* has one, and the texts of the top-level elements only when it has none.
C7_DirsWheneverPresent ==
    (/\ last.op = "_get_langs" /\ last.self._json = "" /\ ~HasCallback
     /\ last.result.requests # <<>> /\ ~last.result.raised) =>
        LET root == fromstring(last.outcome.content).node
            dirs == find(root, "dirs")
            texts == IF dirs # 0 THEN PyList(Texts(root.children[dirs]))
                     ELSE PyList(Texts(root))
        IN  last.result.value = texts /\ handler._cache = texts

\* C8: the mapping _form_params returns holds the handler's API key under
\* 'key' (over a supplied 'key'), every other supplied parameter unchanged,
\* no 'callback' in XML mode and the supplied 'callback' in JSON mode.
C8_FormParams ==
    (last.op = "_form_params") =>
        LET params == last.args.params
            mapping == last.result.mapping
        IN  /\ "key" \in DOMAIN mapping /\ mapping["key"] = last.self._api_key
            /\ \A k \in DOMAIN params \ {"key", "callback"} :
                  k \in DOMAIN mapping /\ mapping[k] = params[k]
            /\ DOMAIN mapping \subseteq DOMAIN params \cup {"key"}
            /\ last.self._json = "" => "callback" \notin DOMAIN mapping
            /\ (last.self._json # "" /\ "callback" \in DOMAIN params) =>
                  ("callback" \in DOMAIN mapping
                   /\ mapping["callback"] = params["callback"])

C8_Witness ==
    /\ last.op = "_form_params" /\ last.self._json = ""
    /\ DOMAIN last.args.params = {"callback", "key", "ui"}
    /\ DOMAIN last.result.mapping = {"key", "ui"}
    /\ last.result.mapping["key"] = "123"

\* C9: YaTranslateException(status_code) is constructed for every integer
\* code; its args are (message, status_code), the message being the mapped
\* one for the nine mapped codes and 'Unknown code' for any other.
C9_ExceptionMessage ==
    (last.op = "YaTranslateException") =>
        LET code == last.args.status_code
            message ==
                CASE code = 400 -> "Wrong parameter was specified"
                  [] code = 401 -> "Invalid API key"
                  [] code = 402 -> "Blocked API key"
                  [] code = 403 -> "Exceeded the daily limit on the amount of requests"
                  [] code = 404 -> "Exceeded the daily limit on the amount of translated text"
                  [] code = 413 -> "Exceeded the maximum text size"
                  [] code = 422 -> "The text cannot be translated"
                  [] code = 501 -> "The specified translation direction is not supported"
                  [] code = 503 -> "Server not available"
                  [] OTHER -> "Unknown code"
        IN  /\ last.result.exc.type = "YaTranslateException"
            /\ last.result.exc.args = <<message, code>>

C9_Witness ==
    /\ last.op = "YaTranslateException" /\ last.args.status_code = 300
    /\ last.result.exc.args = <<"Unknown code", 300>>

\* C10: a language-list fetch that ends in an exception, direct or through
\* _ok, leaves the cache as it was; and after a failed forced refresh on a
\* cache that holds a value, the next _get_langs call without update and
\* without callback returns that value without a request.
C10_FailedFetchKeepsCache ==
    /\ (/\ last.op \in {"_get_langs", "_ok"}
        /\ (last.result.raised \/ last.result.warnings # <<>>)) =>
            handler._cache = last.self._cache
    /\ (/\ last.op = "_get_langs" /\ ~last.args.update /\ ~HasCallback
        /\ last.afterFailedRefresh /\ last.self._cache # PyNone) =>
            /\ last.result.requests = <<>>
            /\ ~last.result.raised
            /\ last.result.value = last.self._cache

====
